---- MODULE Spec2Model ----
(***************************************************************************)
(* Model of src/src/main.rs: the connection-string tokenizer               *)
(* parse_config_from_str, the four FromStr builders built on it and the    *)
(* two From conversions into UdpServerConfig.                              *)
(*                                                                         *)
(* A &str / String is a sequence of one-character strings.  Option<T> is a *)
(* sequence of length at most one: None == <<>>, Some(x) == <<x>>.         *)
(***************************************************************************)
EXTENDS Integers, Sequences, FiniteSets, TLC

(* ------------------------------- bounds -------------------------------- *)
\* largest number of spaces put on one side of the host or port token
MaxSpaces == 1
\* largest number of '/'-separated pieces in a path of an input
MaxPathSegs == 2
\* largest number of further ":x" segments appended after the port segment
MaxExtra == 1

(* --------------------------- Option / Result --------------------------- *)
None == <<>>
Some(x) == <<x>>
is_some(o) == Len(o) = 1
is_none(o) == Len(o) = 0
unwrap(o) == o[1]

Ok(r) == [ok |-> TRUE, panic |-> FALSE, rec |-> r]
Err(m) == [ok |-> FALSE, panic |-> FALSE, error_message |-> m]
\* a panic inside the callee unwinds through the caller
Unwind == [ok |-> FALSE, panic |-> TRUE]

(* ------------------------------ literals ------------------------------- *)
S_http == <<"h", "t", "t", "p">>
S_https == <<"h", "t", "t", "p", "s">>
S_ws == <<"w", "s">>
S_wss == <<"w", "s", "s">>
S_tcp == <<"t", "c", "p">>
S_udp == <<"u", "d", "p">>
S_empty == <<>>

(* ------------------------- std string helpers -------------------------- *)
\* char::is_whitespace, restricted to the characters the inputs use
is_whitespace(c) == c \in {" ", "\t", "\n"}

RECURSIVE trim_start(_)
trim_start(s) ==
    IF Len(s) > 0 /\ is_whitespace(s[1]) THEN trim_start(Tail(s)) ELSE s

RECURSIVE trim_end(_)
trim_end(s) ==
    IF Len(s) > 0 /\ is_whitespace(s[Len(s)])
    THEN trim_end(SubSeq(s, 1, Len(s) - 1))
    ELSE s

\* str::trim
trim_m(s) == trim_start(s)
trim(s) == trim_end(trim_start(s))

\* str::find(char): index (from 0) of the first occurrence, or None
RECURSIVE find_from(_, _, _)
find_from(s, c, i) ==
    IF i > Len(s) THEN None
    ELSE IF s[i] = c THEN Some(i - 1)
    ELSE find_from(s, c, i + 1)

find(s, c) == find_from(s, c, 1)

\* str::split(sep).collect::<Vec<&str>>() for a one-character separator:
\* always at least one piece; "" gives [""]
RECURSIVE split(_, _)
split(s, c) ==
    LET at == find(s, c) IN
    IF is_none(at) THEN <<s>>
    ELSE <<SubSeq(s, 1, unwrap(at))>>
         \o split(SubSeq(s, unwrap(at) + 2, Len(s)), c)

\* str::replace("//", ""): every non-overlapping match, left to right
RECURSIVE replace_double_slash(_)
replace_double_slash(s) ==
    IF Len(s) < 2 THEN s
    ELSE IF s[1] = "/" /\ s[2] = "/"
         THEN replace_double_slash(SubSeq(s, 3, Len(s)))
         ELSE <<s[1]>> \o replace_double_slash(Tail(s))

Digits == {"0", "1", "2", "3", "4", "5", "6", "7", "8", "9"}

to_digit(c) ==
    CASE c = "0" -> 0 [] c = "1" -> 1 [] c = "2" -> 2 [] c = "3" -> 3
      [] c = "4" -> 4 [] c = "5" -> 5 [] c = "6" -> 6 [] c = "7" -> 7
      [] c = "8" -> 8 [] c = "9" -> 9

U16_MAX == 65535

\* one step of the digit loop of u16::from_str: checked_mul(10) then
\* checked_add(digit); None is the overflow error
checked_push_m(acc, d) == Some((acc * 10 + d) % (U16_MAX + 1))
checked_push(acc, d) ==
    IF acc * 10 + d > U16_MAX THEN None ELSE Some(acc * 10 + d)

RECURSIVE parse_digits(_, _)
parse_digits(s, acc) ==
    IF Len(s) = 0 THEN Some(acc)
    ELSE IF s[1] \notin Digits THEN None
    ELSE LET next == checked_push(acc, to_digit(s[1])) IN
         IF is_none(next) THEN None ELSE parse_digits(Tail(s), unwrap(next))

\* str::parse::<u16>().ok(): empty, a lone sign, '-', a non-digit and a
\* value above u16::MAX are errors; one leading '+' is accepted
parse_u16(s) ==
    IF Len(s) = 0 THEN None
    ELSE IF Len(s) = 1 /\ s[1] \in {"+", "-"} THEN None
    ELSE IF s[1] = "+" THEN parse_digits(Tail(s), 0)
    ELSE parse_digits(s, 0)

(* ------------------------ parse_config_from_str ------------------------ *)
\* temp_vec[i] / host_path_vec[i] / port_and_path[i]: indexing from 0,
\* out of bounds is a panic
in_bounds(vec, i) == i >= 0 /\ i < Len(vec)
index(vec, i) == vec[i + 1]

Tokens(protocol, host, port, path) ==
    [panic |-> FALSE, protocol |-> protocol, host |-> host,
     port |-> port, path |-> path]
TokensPanic ==
    [panic |-> TRUE, protocol |-> None, host |-> None,
     port |-> None, path |-> None]

\* if temp_vec.len() < 2
too_few_segments_m(temp_vec) == Len(temp_vec) < 1
too_few_segments(temp_vec) == Len(temp_vec) < 2

\* if host.len() < 1 || host.find('.').is_none()
host_invalid_m(host) == Len(host) < 1
host_invalid(host) == Len(host) < 1 \/ is_none(find(host, "."))

\* if host_path_vec.len() == 2
has_host_path(host_path_vec) == Len(host_path_vec) = 2

\* if temp_vec.len() == 3
has_port_segment(temp_vec) == Len(temp_vec) = 3

\* if port_and_path.len() == 2
has_port_path(port_and_path) == Len(port_and_path) = 2

\* the "Handle port (or maybe with path)" block, applied to result
handle_port(temp_vec, result) ==
    IF ~has_port_segment(temp_vec) THEN result
    ELSE IF ~in_bounds(temp_vec, 2) THEN TokensPanic
    ELSE LET port_and_path == split(trim(index(temp_vec, 2)), "/") IN
         IF ~in_bounds(port_and_path, 0) THEN TokensPanic
         ELSE LET port_result == parse_u16(trim(index(port_and_path, 0)))
                  with_port == IF is_some(port_result)
                               THEN [result EXCEPT !.port = port_result]
                               ELSE result
              IN IF has_port_path(port_and_path)
                 THEN IF ~in_bounds(port_and_path, 1) THEN TokensPanic
                      ELSE [with_port EXCEPT
                              !.path = Some(index(port_and_path, 1))]
                 ELSE with_port

\* the "Handle host" and "Handle path followed by host" blocks
handle_host(temp_vec, protocol) ==
    IF ~in_bounds(temp_vec, 1) THEN TokensPanic
    ELSE LET host_and_path == replace_double_slash(index(temp_vec, 1))
             host_path_vec == split(host_and_path, "/")
         IN IF ~in_bounds(host_path_vec, 0) THEN TokensPanic
            ELSE LET host == trim(index(host_path_vec, 0)) IN
                 IF host_invalid(host)
                 THEN Tokens(Some(protocol), None, None, None)
                 ELSE LET result ==
                            Tokens(Some(protocol), Some(host), None, None)
                      IN IF has_host_path(host_path_vec)
                         THEN IF ~in_bounds(host_path_vec, 1)
                              THEN TokensPanic
                              ELSE handle_port(temp_vec,
                                     [result EXCEPT !.path =
                                        Some(index(host_path_vec, 1))])
                         ELSE handle_port(temp_vec, result)

parse_config_from_str(value) ==
    LET temp_vec == split(value, ":") IN
    IF too_few_segments(temp_vec) THEN Tokens(None, None, None, None)
    ELSE IF ~in_bounds(temp_vec, 0) THEN TokensPanic
    ELSE LET protocol == trim(index(temp_vec, 0)) IN
         IF Len(protocol) < 1 THEN Tokens(None, None, None, None)
         ELSE handle_host(temp_vec, protocol)

(* ------------------------------ builders ------------------------------- *)
HttpErrorMessage ==
    "Invalid input, valid http config string would look like this: 'http[s]://host_name[:port]'"
WebSocketErrorMessage ==
    "Invalid input, valid web socket config string would look like this: 'ws[s]://host_name[:port][/path]'"
TcpErrorMessage ==
    "Invalid input, valid tcp config string would look like this: 'tcp://host_name:port'"
UdpErrorMessage ==
    "Invalid input, valid udp config string would look like this: 'udp://host_name:port'"

\* the early-return condition of HttpServerConfig::from_str
http_rejects(protocol, host) ==
    \/ is_none(protocol)
    \/ is_none(host)
    \/ (unwrap(protocol) /= S_http /\ unwrap(protocol) /= S_https)

\* port: match port { Some(p) => p, None => if https { 443 } else { 80 } }
http_port_m(protocol_type, port) ==
    IF is_some(port) THEN unwrap(port) ELSE 80
http_port(protocol_type, port) ==
    IF is_some(port) THEN unwrap(port)
    ELSE IF protocol_type = S_https THEN 443 ELSE 80

\* the body of HttpServerConfig::from_str after the tokenizer has returned t
HttpServerConfig_build(t) ==
    IF t.panic THEN Unwind
    ELSE IF http_rejects(t.protocol, t.host) THEN Err(HttpErrorMessage)
    ELSE LET protocol_type == unwrap(t.protocol) IN
         Ok([protocol_type |-> IF protocol_type = S_https
                               THEN "SecureHttp" ELSE "Http",
             host |-> unwrap(t.host),
             port |-> http_port(protocol_type, t.port)])

HttpServerConfig_from_str(value) ==
    HttpServerConfig_build(parse_config_from_str(value))

\* the early-return condition of WebSocketServerConfig::from_str
ws_rejects(protocol, host) ==
    \/ is_none(protocol)
    \/ is_none(host)
    \/ (unwrap(protocol) /= S_ws /\ unwrap(protocol) /= S_wss)

ws_port(protocol_type, port) ==
    IF is_some(port) THEN unwrap(port)
    ELSE IF protocol_type = S_wss THEN 443 ELSE 80

\* the body of WebSocketServerConfig::from_str after the tokenizer has returned t
WebSocketServerConfig_build(t) ==
    IF t.panic THEN Unwind
    ELSE IF ws_rejects(t.protocol, t.host) THEN Err(WebSocketErrorMessage)
    ELSE LET protocol_type == unwrap(t.protocol) IN
         Ok([protocol_type |-> IF protocol_type = S_wss
                               THEN "SecureWebSocket" ELSE "WebSocket",
             host |-> unwrap(t.host),
             port |-> ws_port(protocol_type, t.port),
             path |-> IF is_some(t.path) THEN unwrap(t.path) ELSE S_empty])

WebSocketServerConfig_from_str(value) ==
    WebSocketServerConfig_build(parse_config_from_str(value))

\* the early-return condition of TcpServerConfig::from_str
tcp_rejects_m(protocol, host, port) ==
    \/ is_none(protocol)
    \/ is_none(host)
    \/ unwrap(protocol) /= S_tcp /\ unwrap(protocol) /= S_http
    \/ is_none(port)
tcp_rejects(protocol, host, port) ==
    \/ is_none(protocol)
    \/ is_none(host)
    \/ unwrap(protocol) /= S_tcp
    \/ is_none(port)

\* the body of TcpServerConfig::from_str after the tokenizer has returned t
TcpServerConfig_build(t) ==
    IF t.panic THEN Unwind
    ELSE IF tcp_rejects(t.protocol, t.host, t.port) THEN Err(TcpErrorMessage)
    ELSE Ok([protocol_type |-> "Tcp",
             host |-> unwrap(t.host),
             port |-> unwrap(t.port)])

TcpServerConfig_from_str(value) ==
    TcpServerConfig_build(parse_config_from_str(value))

\* the early-return condition of UdpServerConfig::from_str
udp_rejects(protocol, host, port) ==
    \/ is_none(protocol)
    \/ is_none(host)
    \/ unwrap(protocol) /= S_udp
    \/ is_none(port)

\* the body of UdpServerConfig::from_str after the tokenizer has returned t
UdpServerConfig_build(t) ==
    IF t.panic THEN Unwind
    ELSE IF udp_rejects(t.protocol, t.host, t.port) THEN Err(UdpErrorMessage)
    ELSE Ok([protocol_type |-> "Udp",
             host |-> unwrap(t.host),
             port |-> unwrap(t.port)])

UdpServerConfig_from_str(value) ==
    UdpServerConfig_build(parse_config_from_str(value))

(* ----------------------------- conversions ----------------------------- *)
\* impl From<HttpServerConfig> for UdpServerConfig
UdpServerConfig_from_HttpServerConfig_m(http_server_config) ==
    [protocol_type |-> "Udp",
     host |-> http_server_config.host,
     port |-> IF http_server_config.protocol_type = "SecureHttp"
              THEN 80 ELSE http_server_config.port]
UdpServerConfig_from_HttpServerConfig(http_server_config) ==
    [protocol_type |-> "Udp",
     host |-> http_server_config.host,
     port |-> http_server_config.port]

\* impl From<TcpServerConfig> for UdpServerConfig
UdpServerConfig_from_TcpServerConfig(tcp_server_config) ==
    [protocol_type |-> "Udp",
     host |-> tcp_server_config.host,
     port |-> tcp_server_config.port]

\* T::from_str(value) for the four builder types
Builders == {"HttpServerConfig", "WebSocketServerConfig",
             "TcpServerConfig", "UdpServerConfig"}

build(T, t) ==
    CASE T = "HttpServerConfig" -> HttpServerConfig_build(t)
      [] T = "WebSocketServerConfig" -> WebSocketServerConfig_build(t)
      [] T = "TcpServerConfig" -> TcpServerConfig_build(t)
      [] T = "UdpServerConfig" -> UdpServerConfig_build(t)

from_str(T, value) ==
    CASE T = "HttpServerConfig" -> HttpServerConfig_from_str(value)
      [] T = "WebSocketServerConfig" -> WebSocketServerConfig_from_str(value)
      [] T = "TcpServerConfig" -> TcpServerConfig_from_str(value)
      [] T = "UdpServerConfig" -> UdpServerConfig_from_str(value)

(* ------------------------------- inputs -------------------------------- *)
\* An input is put together from the pieces of the informal grammar
\*   scheme "://" host ["/" path0] [":" port ["/" path1]]
\* with ill-formed pieces mixed in.  parts records the pieces, value is
\* the text handed to the builders.
S_a_dot_b == <<"a", ".", "b">>
S_ab == <<"a", "b">>
S_WS == <<"W", "S">>
S_tcp_spaced == <<" ", "t", "c", "p", " ">>
S_sep == <<":", "/", "/">>
S_80 == <<"8", "0">>
S_65535 == <<"6", "5", "5", "3", "5">>
S_65536 == <<"6", "5", "5", "3", "6">>
S_x8 == <<"x", "8">>
S_plus8 == <<"+", "8">>

SchemeLiterals == {S_http, S_https, S_ws, S_wss, S_tcp, S_udp}
Schemes == SchemeLiterals \cup {S_empty, S_WS, S_tcp_spaced}
Seps == {S_sep, S_empty}
Hosts == {S_a_dot_b, S_ab, S_empty}
PortTokens == {S_80, S_65535, S_65536, S_x8, S_plus8, S_empty}

RECURSIVE repeat(_, _)
repeat(s, n) == IF n = 0 THEN <<>> ELSE s \o repeat(s, n - 1)

\* a path of n pieces: "", "p", "p/p", ...
path_of(n) == IF n = 0 THEN <<>> ELSE <<"p">> \o repeat(<<"/", "p">>, n - 1)

PathOptions == {None} \cup {Some(path_of(n)) : n \in 0..MaxPathSegs}

\* spaces <<before host, after host, before port, after port>>
HostPads == {<<0, 0, 0, 0>>}
              \cup {<<n, 0, 0, 0>> : n \in 1..MaxSpaces}
              \cup {<<0, n, 0, 0>> : n \in 1..MaxSpaces}
PortPads == {<<0, 0, n, 0>> : n \in 1..MaxSpaces}
              \cup {<<0, 0, 0, n>> : n \in 1..MaxSpaces}
              \cup {<<n, n, n, n>> : n \in 1..MaxSpaces}

PartsNoPort ==
    [scheme : Schemes, sep : Seps, host : Hosts, path0 : PathOptions,
     port : {None}, path1 : {None}, extra : {0}, pad : HostPads]
\* the further ":x" segments are appended to the inputs without spaces
PartsWithPort ==
    [scheme : Schemes, sep : Seps, host : Hosts, path0 : PathOptions,
     port : {Some(t) : t \in PortTokens}, path1 : PathOptions,
     extra : {0}, pad : HostPads \cup PortPads]
    \cup
    [scheme : Schemes, sep : Seps, host : Hosts, path0 : PathOptions,
     port : {Some(t) : t \in PortTokens}, path1 : PathOptions,
     extra : 1..MaxExtra, pad : {<<0, 0, 0, 0>>}]
\* the "://" is left out only after the scheme http and after no scheme
Parts == {p \in PartsNoPort \cup PartsWithPort :
            p.sep = S_empty => p.scheme \in {S_http, S_empty}}

compose(p) ==
    p.scheme \o p.sep
      \o repeat(<<" ">>, p.pad[1]) \o p.host \o repeat(<<" ">>, p.pad[2])
      \o (IF is_some(p.path0) THEN <<"/">> \o unwrap(p.path0) ELSE <<>>)
      \o (IF is_some(p.port)
          THEN <<":">> \o repeat(<<" ">>, p.pad[3]) \o unwrap(p.port)
                 \o repeat(<<" ">>, p.pad[4])
                 \o (IF is_some(p.path1)
                     THEN <<"/">> \o unwrap(p.path1) ELSE <<>>)
                 \o repeat(<<":", "x">>, p.extra)
          ELSE <<>>)

(* ---------------------------- state machine ---------------------------- *)
VARIABLES
    parts,    \* the pieces value was put together from
    value,    \* the &str handed to from_str
    fn,       \* the builder type whose from_str has run, "none" before
    tokens,   \* what parse_config_from_str returned to that call
    result,   \* the ConversionResult of that call
    conv      \* source and result of UdpServerConfig::from on result

vars == <<parts, value, fn, tokens, result, conv>>

Init ==
    /\ parts \in Parts
    /\ value = compose(parts)
    /\ fn = "none"
    /\ tokens = None
    /\ result = None
    /\ conv = None

\* let temp_result = T::from_str(test_connection_str);
Call(T) ==
    /\ fn = "none"
    /\ fn' = T
    /\ tokens' = Some(parse_config_from_str(value))
    /\ result' = Some(build(T, unwrap(tokens')))
    /\ UNCHANGED <<parts, value, conv>>

HttpFromStr == Call("HttpServerConfig")
WebSocketFromStr == Call("WebSocketServerConfig")
TcpFromStr == Call("TcpServerConfig")
UdpFromStr == Call("UdpServerConfig")

\* let config: UdpServerConfig = temp_result.unwrap().into();
UdpFromHttp ==
    /\ fn = "HttpServerConfig"
    /\ is_some(result) /\ unwrap(result).ok
    /\ is_none(conv)
    /\ conv' = Some([src |-> unwrap(result).rec,
                     out |-> UdpServerConfig_from_HttpServerConfig(
                                unwrap(result).rec)])
    /\ UNCHANGED <<parts, value, fn, tokens, result>>

UdpFromTcp ==
    /\ fn = "TcpServerConfig"
    /\ is_some(result) /\ unwrap(result).ok
    /\ is_none(conv)
    /\ conv' = Some([src |-> unwrap(result).rec,
                     out |-> UdpServerConfig_from_TcpServerConfig(
                                unwrap(result).rec)])
    /\ UNCHANGED <<parts, value, fn, tokens, result>>

Next ==
    \/ HttpFromStr
    \/ WebSocketFromStr
    \/ TcpFromStr
    \/ UdpFromStr
    \/ UdpFromHttp
    \/ UdpFromTcp

Spec == Init /\ [][Next]_vars

(* ------------------------- vocabulary of claims ------------------------ *)
Called == fn /= "none"
tok == unwrap(tokens)
res == unwrap(result)

SecureSchemes == {Some(S_https), Some(S_wss)}

\* a decimal numeral as the grammar means it: an optional '+' and at
\* least one digit
numeral_digits(t) == IF Len(t) > 0 /\ t[1] = "+" THEN Tail(t) ELSE t
is_numeral(t) ==
    /\ Len(numeral_digits(t)) > 0
    /\ \A i \in 1..Len(numeral_digits(t)) : numeral_digits(t)[i] \in Digits

RECURSIVE digits_value(_)
digits_value(d) ==
    IF Len(d) = 0 THEN 0
    ELSE 10 * digits_value(SubSeq(d, 1, Len(d) - 1)) + to_digit(d[Len(d)])

numeral_value(t) == digits_value(numeral_digits(t))

\* a port token the tokenizer cannot turn into a u16
malformed_port(t) == ~is_numeral(t) \/ numeral_value(t) > 65535

no_edge_whitespace(s) ==
    Len(s) > 0 => ~is_whitespace(s[1]) /\ ~is_whitespace(s[Len(s)])

host_well_formed(h) ==
    /\ Len(h) > 0
    /\ \E i \in 1..Len(h) : h[i] = "."
    /\ no_edge_whitespace(h)

(* -------------------------------- C1 ----------------------------------- *)
\* C1: each builder returns Ok exactly when the tokenizer's scheme is one
\* of its literals and the host is present (tcp and udp: and the port is
\* present), Err otherwise; no input is accepted by two builders.
C1_AcceptsExactly ==
    Called =>
      /\ ~res.panic
      /\ fn = "HttpServerConfig" =>
           (res.ok <=> /\ tok.protocol \in {Some(S_http), Some(S_https)}
                       /\ is_some(tok.host))
      /\ fn = "WebSocketServerConfig" =>
           (res.ok <=> /\ tok.protocol \in {Some(S_ws), Some(S_wss)}
                       /\ is_some(tok.host))
      /\ fn = "TcpServerConfig" =>
           (res.ok <=> /\ tok.protocol = Some(S_tcp)
                       /\ is_some(tok.host) /\ is_some(tok.port))
      /\ fn = "UdpServerConfig" =>
           (res.ok <=> /\ tok.protocol = Some(S_udp)
                       /\ is_some(tok.host) /\ is_some(tok.port))
      /\ ~res.ok => res.error_message /= ""

C1_OneFamily ==
    (Called /\ res.ok) => \A U \in Builders \ {fn} : ~from_str(U, value).ok

C1_Acceptance == C1_AcceptsExactly /\ C1_OneFamily

\* "tcp://a.b" and the like: scheme and host are fine, the port is missing,
\* and TcpServerConfig::from_str has returned Err
C1_Witness ==
    /\ fn = "TcpServerConfig"
    /\ tok.protocol = Some(S_tcp) /\ is_some(tok.host) /\ is_none(tok.port)
    /\ ~res.ok

(* -------------------------------- C2 ----------------------------------- *)
\* C2: an Ok record of the http or web socket builder carries the
\* tokenizer's port when there is one, else 443 for https / wss and 80 for
\* http / ws, and is tagged secure exactly for https / wss.
C2_PortAndKind ==
    (Called /\ fn \in {"HttpServerConfig", "WebSocketServerConfig"} /\ res.ok)
    =>
      /\ is_some(tok.port) => res.rec.port = unwrap(tok.port)
      /\ is_none(tok.port) /\ tok.protocol \in SecureSchemes
           => res.rec.port = 443
      /\ is_none(tok.port) /\ tok.protocol \notin SecureSchemes
           => res.rec.port = 80
      /\ res.rec.protocol_type =
           (CASE tok.protocol = Some(S_http) -> "Http"
              [] tok.protocol = Some(S_https) -> "SecureHttp"
              [] tok.protocol = Some(S_ws) -> "WebSocket"
              [] tok.protocol = Some(S_wss) -> "SecureWebSocket")

\* "https://a.b": no port in the input, the record has 443
C2_Witness ==
    /\ fn = "HttpServerConfig" /\ res.ok
    /\ tok.protocol = Some(S_https) /\ is_none(tok.port)
    /\ res.rec.port = 443 /\ res.rec.protocol_type = "SecureHttp"

(* -------------------------------- C4 ----------------------------------- *)
\* C4: UdpServerConfig::from of an http or tcp record keeps host and port
\* and tags the record Udp; "https://host" converted has port 443.
C4_ConversionKeepsHostPort ==
    is_some(conv) =>
      /\ unwrap(conv).out.host = unwrap(conv).src.host
      /\ unwrap(conv).out.port = unwrap(conv).src.port
      /\ unwrap(conv).out.protocol_type = "Udp"
      /\ (tok.protocol = Some(S_https) /\ is_none(tok.port))
           => unwrap(conv).out.port = 443

\* a SecureHttp record with the default port has been converted
C4_Witness ==
    /\ is_some(conv)
    /\ unwrap(conv).src.protocol_type = "SecureHttp"
    /\ is_none(tok.port)
    /\ unwrap(conv).out.port = 443

(* -------------------------------- C5 ----------------------------------- *)
\* C5: the host of every Ok record, and of every record converted from
\* one, is non-empty, contains a '.', and has no whitespace at either end;
\* an input whose host is empty or has no '.' is rejected by every builder.
C5_HostInvariant ==
    /\ (Called /\ res.ok) => host_well_formed(res.rec.host)
    /\ is_some(conv) => host_well_formed(unwrap(conv).out.host)
    /\ (Called /\ parts.sep = S_sep /\ parts.host \in {S_ab, S_empty})
         => ~res.ok

\* " a.b" with a space in front has been accepted
C5_Witness ==
    /\ Called /\ res.ok
    /\ parts.pad[1] > 0
    /\ res.rec.host = S_a_dot_b

(* -------------------------------- C10 ---------------------------------- *)
\* C10: parse_config_from_str never panics; it returns four absent fields
\* when the input has fewer than two ':' segments or an empty trimmed first
\* segment; when the host is absent, port and path are absent too.
C10_TokenizerTotal ==
    Called =>
      /\ ~tok.panic
      /\ (Len(split(value, ":")) < 2 \/ Len(trim(split(value, ":")[1])) = 0)
           => tok = Tokens(None, None, None, None)
      /\ is_none(tok.host) => is_none(tok.port) /\ is_none(tok.path)
      /\ is_none(tok.protocol) => is_none(tok.host)

\* an input without any ':' has been tokenized
C10_Witness ==
    /\ Called
    /\ Len(split(value, ":")) = 1
    /\ tok = Tokens(None, None, None, None)

(* -------------------------------- C6 ----------------------------------- *)
\* C6: a port token that is not a numeral, or whose value is above 65535,
\* leaves the tokenizer's port absent while scheme and host are returned;
\* the http and web socket builders then succeed with the default port and
\* the tcp and udp builders return Err.
C6_Case ==
    /\ Called
    /\ parts.sep = S_sep /\ parts.host = S_a_dot_b
    /\ Len(trim(parts.scheme)) > 0
    /\ is_some(parts.port) /\ malformed_port(unwrap(parts.port))

C6_MalformedPortIsAbsent ==
    C6_Case =>
      /\ tok.protocol = Some(trim(parts.scheme))
      /\ tok.host = Some(S_a_dot_b)
      /\ is_none(tok.port)
      /\ (fn = "HttpServerConfig" /\ parts.scheme \in {S_http, S_https})
           => res.ok /\ res.rec.port =
                          (IF parts.scheme = S_https THEN 443 ELSE 80)
      /\ (fn = "WebSocketServerConfig" /\ parts.scheme \in {S_ws, S_wss})
           => res.ok /\ res.rec.port =
                          (IF parts.scheme = S_wss THEN 443 ELSE 80)
      /\ fn \in {"TcpServerConfig", "UdpServerConfig"} => ~res.ok

\* "wss://a.b:65536": out of range, accepted with port 443
C6_Witness ==
    /\ C6_Case
    /\ fn = "WebSocketServerConfig" /\ parts.scheme = S_wss
    /\ unwrap(parts.port) = S_65536 /\ parts.extra = 0
    /\ res.ok /\ res.rec.port = 443

(* -------------------------------- C8 ----------------------------------- *)
\* C8: when a builder accepts an input, it also accepts the input with
\* spaces put right before or after the host token and right before or
\* after the port token, and gives the same host and the same port.
unpadded(p) == [p EXCEPT !.pad = <<0, 0, 0, 0>>]

C8_Case == Called /\ parts.pad /= <<0, 0, 0, 0>>

C8_SpacesIgnored ==
    C8_Case =>
      LET plain == from_str(fn, compose(unpadded(parts))) IN
      plain.ok => /\ res.ok
                  /\ res.rec.host = plain.rec.host
                  /\ res.rec.port = plain.rec.port

\* "http:// a.b : 80 " and the like: spaces on every side, port 80 read
C8_Witness ==
    /\ C8_Case
    /\ parts.pad[1] > 0 /\ parts.pad[2] > 0
    /\ parts.pad[3] > 0 /\ parts.pad[4] > 0
    /\ fn = "HttpServerConfig" /\ res.ok
    /\ parts.port = Some(S_80) /\ res.rec.port = 80
    /\ res.rec.host = S_a_dot_b

(* -------------------------------- C3 ----------------------------------- *)
\* the builder whose literal the scheme is
builder_of(scheme) ==
    CASE scheme \in {S_http, S_https} -> "HttpServerConfig"
      [] scheme \in {S_ws, S_wss} -> "WebSocketServerConfig"
      [] scheme = S_tcp -> "TcpServerConfig"
      [] scheme = S_udp -> "UdpServerConfig"

\* inputs of the grammar: a scheme literal, "://", a host with a '.', an
\* optional path, an optional port in 0..65535 (tcp and udp: a port), an
\* optional path after the port
in_grammar(p) ==
    /\ p.scheme \in SchemeLiterals
    /\ p.sep = S_sep
    /\ p.host = S_a_dot_b
    /\ p.pad = <<0, 0, 0, 0>>
    /\ p.extra = 0
    /\ is_some(p.port) =>
         /\ is_numeral(unwrap(p.port))
         /\ unwrap(p.port)[1] /= "+"
         /\ numeral_value(unwrap(p.port)) <= 65535
    /\ p.scheme \in {S_tcp, S_udp} => is_some(p.port)

expected_port(p) ==
    IF is_some(p.port) /\ ~malformed_port(unwrap(p.port))
    THEN numeral_value(unwrap(p.port))
    ELSE IF p.scheme \in {S_https, S_wss} THEN 443 ELSE 80

expected_path(p) ==
    IF is_some(p.port) /\ is_some(p.path1) THEN unwrap(p.path1)
    ELSE IF is_some(p.path0) THEN unwrap(p.path0)
    ELSE S_empty

\* C3: for every input of the grammar the matching builder succeeds and
\* host, port and path of the record are the components of the input, with
\* 80 / 443 and the empty path for the missing ones.
C3_RoundTrip ==
    (Called /\ in_grammar(parts) /\ fn = builder_of(parts.scheme)) =>
      /\ res.ok
      /\ res.rec.host = parts.host
      /\ res.rec.port = expected_port(parts)
      /\ fn = "WebSocketServerConfig" => res.rec.path = expected_path(parts)

(* -------------------------------- C7 ----------------------------------- *)
\* C7: the path of an Ok web socket record is the text after the '/' that
\* follows the port when there is one, else the text after the '/' that
\* follows the host when there is one, else empty.
C7_PathResolution ==
    (/\ Called /\ fn = "WebSocketServerConfig" /\ res.ok
     /\ parts.sep = S_sep /\ parts.extra = 0)
    => res.rec.path = expected_path(parts)

(* -------------------------------- C9 ----------------------------------- *)
\* C9: whenever the input has a third ':' segment and the host is valid,
\* the port is the first '/' piece of the trimmed third segment parsed as a
\* u16, also when more ':' follow the port segment.
C9_PortFromThirdSegment ==
    (Called /\ Len(split(value, ":")) >= 3 /\ is_some(tok.host)) =>
      tok.port =
        parse_u16(trim(split(trim(split(value, ":")[3]), "/")[1]))

====
